---------------------------- MODULE Spec2Model ----------------------------
(***************************************************************************)
(* Model of the ai-web-summarizer: the scraping fallback pipeline          *)
(* (scraper with rendering: src/unnamed/part_000, lightweight scraper:     *)
(* src/utils/scraper.js), the summarization client with its retry loop     *)
(* (src/unnamed/part_001), the text functions and the POST /api/summarize  *)
(* handler (src/utils/textProcessor.js).                                   *)
(*                                                                         *)
(* Texts are run-length encoded: a text is a sequence of runs, each run    *)
(* [k, n] standing for n consecutive characters of class k: "s" is         *)
(* whitespace, "p" a sentence terminator (one of . ! ?), "x" a character   *)
(* outside the allow-list of cleanText, and "w" any other character (word  *)
(* characters and the remaining allowed punctuation).  Runs have n >= 1    *)
(* and two adjacent runs never have the same class.                        *)
(***************************************************************************)
EXTENDS Integers, Sequences, FiniteSets, TLC

\* ------------------------------------------------------------------
\* Program constants
\* ------------------------------------------------------------------
maxTextLength == 10000
MinContentLength == 100
MainContentThreshold == 200
SettleDelay == 3000
ChallengeDelay == 8000

\* ------------------------------------------------------------------
\* Bounds of the model
\* ------------------------------------------------------------------
\* number of content selectors, other than body, that match in a document
MaxPresent == 1

\* number of runs of the texts handed to the text functions
MaxRuns == 5

\* ------------------------------------------------------------------
\* Texts
\* ------------------------------------------------------------------
W(n) == [k |-> "w", n |-> n]
S(n) == [k |-> "s", n |-> n]
Dot(n) == [k |-> "p", n |-> n]
X(n) == [k |-> "x", n |-> n]

\* text.length
RECURSIVE TextLength(_)
TextLength(t) ==
  IF t = <<>> THEN 0
  ELSE IF Len(t) = 1 THEN t[1].n
  ELSE LET half == Len(t) \div 2
       IN TextLength(SubSeq(t, 1, half)) + TextLength(SubSeq(t, half + 1, Len(t)))

RECURSIVE DropLeadingWs(_)
DropLeadingWs(t) ==
  IF t = <<>> THEN <<>>
  ELSE IF Head(t).k = "s" THEN DropLeadingWs(Tail(t)) ELSE t

RECURSIVE DropTrailingWs(_)
DropTrailingWs(t) ==
  IF t = <<>> THEN <<>>
  ELSE IF t[Len(t)].k = "s"
       THEN DropTrailingWs(SubSeq(t, 1, Len(t) - 1))
       ELSE t

\* text.replace(/\s+/g, ' '): every maximal whitespace run becomes one space
RECURSIVE CollapseWhitespace(_)
CollapseWhitespace(t) ==
  IF t = <<>> THEN <<>>
  ELSE IF Head(t).k = "s"
       THEN <<S(1)>> \o CollapseWhitespace(DropLeadingWs(Tail(t)))
       ELSE <<Head(t)>> \o CollapseWhitespace(Tail(t))

\* text.trim()
Trim(t) == DropTrailingWs(DropLeadingWs(t))

\* text.substring(0, m)
RECURSIVE Substring(_, _)
Substring(t, m) ==
  IF t = <<>> \/ m <= 0 THEN <<>>
  ELSE IF Head(t).n <= m
       THEN <<Head(t)>> \o Substring(Tail(t), m - Head(t).n)
       ELSE <<[Head(t) EXCEPT !.n = m]>>

\* text.split(/\s+/).length: one piece more than there are whitespace runs
SplitWhitespaceCount(t) == Cardinality({i \in DOMAIN t : t[i].k = "s"}) + 1

\* the scraper's normalisation: .replace(/\s+/g, ' ').trim().substring(0, max)
NormalizeScraped(t) == Substring(Trim(CollapseWhitespace(t)), maxTextLength)

\* a + b: the runs that meet at the seam are one run when of the same class
Concat(a, b) ==
  IF a = <<>> THEN b
  ELSE IF b = <<>> THEN a
  ELSE IF a[Len(a)].k = b[1].k
       THEN SubSeq(a, 1, Len(a) - 1)
            \o <<[k |-> b[1].k, n |-> a[Len(a)].n + b[1].n]>>
            \o Tail(b)
       ELSE a \o b

\* text.replace(/[^\w\s.,!?;:()\-'"]/g, ''): the characters outside the
\* allow-list disappear and what stood on either side of them becomes adjacent
RECURSIVE StripDisallowed(_)
StripDisallowed(t) ==
  IF t = <<>> THEN <<>>
  ELSE IF Head(t).k = "x"
       THEN StripDisallowed(Tail(t))
       ELSE Concat(<<Head(t)>>, StripDisallowed(Tail(t)))

cleanText(text) ==
  IF text = <<>> THEN <<>>
  ELSE LET cleaned == CollapseWhitespace(text)
       IN Trim(StripDisallowed(cleaned))

DefaultTruncateLength == 5000

truncateText(text, maxLength) ==
  IF TextLength(text) <= maxLength THEN text
  ELSE Concat(Substring(text, maxLength), <<Dot(3)>>)

WordsPerMinute == 200

Max(a, b) == IF a >= b THEN a ELSE b

\* Math.round of a / b for a >= 0 and b > 0 (a half rounds up)
Round(a, b) == (2 * a + b) \div (2 * b)

\* a reading time that rounds down
ReadingTimeFloor(wordCount) == Max(1, wordCount \div WordsPerMinute)

\* Math.max(1, Math.round(words.length / 200))
ReadingTime(wordCount) == Max(1, Round(wordCount, WordsPerMinute))

\* text.split(/[.!?]+/).filter(s => s.trim().length > 0).length: the pieces
\* between terminator runs that hold something other than whitespace.  Each
\* is counted at its first run that is neither whitespace nor a terminator:
\* one that the start of the text or a terminator run precedes, directly or
\* with one whitespace run in between
SentenceCount(t) ==
  LET content(i) == t[i].k \notin {"s", "p"}
      opens(i) == i = 0 \/ t[i].k = "p"
  IN Cardinality({ i \in DOMAIN t :
                     /\ content(i)
                     /\ \/ opens(i - 1)
                        \/ t[i - 1].k = "s" /\ opens(i - 2) })

\* `${readingTime} min read`
MinRead(n) == <<n, " min read">>

\* extractMetadata, called at the instant now
extractMetadata(text, now) ==
  LET words == SplitWhitespaceCount(text)
      readingTime == ReadingTime(words)
  IN [wordCount |-> words,
      sentenceCount |-> SentenceCount(text),
      characterCount |-> TextLength(text),
      readingTime |-> MinRead(readingTime),
      timestamp |-> now]


\* ------------------------------------------------------------------
\* URLs.  An input string is abstracted to the scheme it is written with
\* ("" when it has none) and the host that follows it ("" when none).
\* ------------------------------------------------------------------
Schemes == {"", "http", "HTTPS", "ftp", "javascript"}
Hosts == {"", "example.com"}
Urls == [scheme : Schemes, host : Hosts]

\* the URL parser lower-cases the scheme
LowerCase(s) == IF s = "HTTPS" THEN "https" ELSE s

\* new URL(url): throws a TypeError for a string without a scheme (there is
\* no base URL) and for a special scheme without a host; otherwise the
\* protocol is the lower-cased scheme followed by a colon
NewURL(u) ==
  IF u.scheme = "" THEN [ok |-> FALSE, protocol |-> ""]
  ELSE IF LowerCase(u.scheme) \in {"http", "https", "ftp"} /\ u.host = ""
       THEN [ok |-> FALSE, protocol |-> ""]
       ELSE [ok |-> TRUE,
             protocol |-> CASE LowerCase(u.scheme) = "http" -> "http:"
                            [] LowerCase(u.scheme) = "https" -> "https:"
                            [] LowerCase(u.scheme) = "ftp" -> "ftp:"
                            [] OTHER -> "javascript:"]

\* a validator that forgets the protocol test
isValidUrlAnyScheme(u) == NewURL(u).ok

isValidUrl(u) ==
  LET urlObj == NewURL(u)
  IN IF urlObj.ok
     THEN urlObj.protocol = "http:" \/ urlObj.protocol = "https:"
     ELSE FALSE

\* ------------------------------------------------------------------
\* Documents: which content selectors match, and the text of each match
\* ------------------------------------------------------------------
mainSelectors ==
  <<"main", "article", "[role=main]", ".content", ".main-content", "#content", "body">>

contentSelectors ==
  <<"article", "main", "[role=main]", ".content", ".post-content",
    ".article-content", ".entry-content", "#main-content", "body">>

Range(q) == {q[i] : i \in DOMAIN q}

AllSelectors == Range(mainSelectors) \cup Range(contentSelectors)

Absent == [present |-> FALSE, text |-> <<>>]
Elem(t) == [present |-> TRUE, text |-> t]

NoDoc == [s \in AllSelectors |-> Absent]

\* texts of elements: at the success threshold once normalised (100
\* characters, from 105), at and above the main-content threshold (the one
\* above it with a character outside the allow-list of cleanText standing
\* between two spaces), and longer than the maximum, with the cut at the
\* maximum falling after a space
ElemTexts ==
  { <<S(2), W(MinContentLength - 40), S(3), W(39), S(1)>>,
    <<W(MainContentThreshold)>>,
    <<W(MainContentThreshold - 50), S(1), X(1), S(1), W(48)>>,
    <<W(maxTextLength - 1), S(5), W(maxTextLength)>> }

\* the document in which the selectors of the set matched match with the
\* texts given by texts, and the body with the text bodyText
DocOf(matched, texts, bodyText) ==
  [s \in AllSelectors |->
     IF s = "body" THEN Elem(bodyText)
     ELSE IF s \in matched THEN Elem(texts[s]) ELSE Absent]

\* the sets of at most n selectors of the list sels, the body apart
Matches(sels, n) ==
  {Q \in SUBSET (Range(sels) \ {"body"}) : Cardinality(Q) <= n}

\* the documents whose body matches and at most n other selectors of the
\* list sels match, the texts of the matches being taken from texts
DocsWith(sels, texts, n) ==
  UNION { { DocOf(matched, f, tb) : f \in [matched -> texts], tb \in texts }
          : matched \in Matches(sels, n) }

\* the documents one scrape is run on
DocsOver(sels) == DocsWith(sels, ElemTexts, MaxPresent)

\* a selector loop whose threshold test is written with >=
RECURSIVE FirstAtLeastThreshold(_, _, _)
FirstAtLeastThreshold(d, sels, i) ==
  IF i > Len(sels) THEN d["body"].text
  ELSE IF d[sels[i]].present
          /\ d[sels[i]].text # <<>>
          /\ TextLength(d[sels[i]].text) >= MainContentThreshold
       THEN d[sels[i]].text
       ELSE FirstAtLeastThreshold(d, sels, i + 1)

\* page.evaluate of the rendering fetcher: the first selector whose innerText
\* is longer than 200 characters, else the body's innerText
RECURSIVE FirstOverThreshold(_, _, _)
FirstOverThreshold(d, sels, i) ==
  IF i > Len(sels) THEN d["body"].text
  ELSE IF d[sels[i]].present
          /\ d[sels[i]].text # <<>>
          /\ TextLength(d[sels[i]].text) > MainContentThreshold
       THEN d[sels[i]].text
       ELSE FirstOverThreshold(d, sels, i + 1)

RenderedText(d) == FirstOverThreshold(d, mainSelectors, 1)

\* a selector loop that replaces the text kept by a later one of equal length
RECURSIVE LongestFromAtLeast(_, _, _, _)
LongestFromAtLeast(d, sels, i, text) ==
  IF i > Len(sels) THEN text
  ELSE IF d[sels[i]].present /\ TextLength(d[sels[i]].text) >= TextLength(text)
       THEN LongestFromAtLeast(d, sels, i + 1, d[sels[i]].text)
       ELSE LongestFromAtLeast(d, sels, i + 1, text)

\* the selector loop of the lightweight fetcher: keep the longest text seen
RECURSIVE LongestFrom(_, _, _, _)
LongestFrom(d, sels, i, text) ==
  IF i > Len(sels) THEN text
  ELSE IF d[sels[i]].present /\ TextLength(d[sels[i]].text) > TextLength(text)
       THEN LongestFrom(d, sels, i + 1, d[sels[i]].text)
       ELSE LongestFrom(d, sels, i + 1, text)

LongestText(d) == LongestFrom(d, contentSelectors, 1, <<>>)

\* ------------------------------------------------------------------
\* Results
\* ------------------------------------------------------------------
\* a console.error line: the function that wrote it and the message
LogEntry(src, msg) == [source |-> src, message |-> msg]

Pending == [kind |-> "pending"]
Null == [kind |-> "null"]
ErrorResult(msg) == [kind |-> "error", error |-> msg]
\* a rejected promise: the exception reaches the caller
Raised(msg) == [kind |-> "raised", message |-> msg]
SuccessResult(title, text, method) ==
  [kind |-> "success", success |-> TRUE, title |-> title, text |-> text,
   wordCount |-> SplitWhitespaceCount(text), method |-> method]

InvalidUrlMessage == "Invalid URL format. Please include http:// or https://"
AllFailedMessageRendering ==
  "Could not extract content from this URL. The site likely uses advanced anti-bot protection (Cloudflare, PerimeterX, etc.) or requires authentication. Protected sites like LeetCode, LinkedIn, and Twitter may block automated access."
AllFailedMessageLightweight ==
  "Could not extract content from this URL. The site may have anti-scraping protection or require JavaScript rendering."

\* a threshold test written with >=
TierResultAtLeast(title, cleanedText, method) ==
  IF TextLength(cleanedText) >= MinContentLength
  THEN SuccessResult(title, cleanedText, method)
  ELSE Null

\* the result of a tier from its cleaned text: success only above 100 characters
TierResult(title, cleanedText, method) ==
  IF TextLength(cleanedText) > MinContentLength
  THEN SuccessResult(title, cleanedText, method)
  ELSE Null


\* ------------------------------------------------------------------
\* State of one scrapeWebsite invocation
\* ------------------------------------------------------------------
VARIABLES
  deployment,   \* "rendering" (part_000) or "lightweight" (utils/scraper.js)
  url,          \* the argument of scrapeWebsite
  pc,           \* where the invocation stands
  browser,      \* "none", "open" or "closed": the browser instance
  launches,     \* number of successful puppeteer.launch calls
  closeCalls,   \* number of browser.close() invocations
  closeFailed,  \* whether some browser.close() rejected
  gets,         \* number of axios.get calls
  status,       \* HTTP status of the response being processed (0: none)
  challenge,    \* the page under way: "unchecked", "absent", "detected", "cleared", "persisting"
  sleeps,       \* the delays slept by the rendering attempt under way, in order
  title,        \* the title read from the page
  doc,          \* the document the text is extracted from
  text,         \* the extracted text
  thrown,       \* the message of the exception being handled ("" when none)
  pResult,      \* what scrapeWithPuppeteer returned
  cResult,      \* what scrapeWithCheerio returned
  result,       \* what scrapeWebsite returned
  errorLog,     \* the messages written with console.error, in order
  tiers         \* the fetchers called, in order

svars == <<deployment, url, pc, browser, launches, closeCalls, closeFailed, gets,
           status, challenge, sleeps, title, doc, text, thrown, pResult, cResult,
           result, errorLog, tiers>>

\* State of one summarizeText or extractKeyPoints invocation
VARIABLES
  gop,        \* "summarizeText" or "extractKeyPoints"
  gtext,      \* the text argument
  gpc,        \* "idle", "start", "call", "sleep" or "done"
  prompt,     \* the text embedded in the prompt
  attempt,    \* the loop index i of retryWithBackoff
  calls,      \* number of model.generateContent invocations
  outcomes,   \* what the upstream answered to each call, in order
  delays,     \* the backoff delays slept, in order
  lastError,  \* lastError of retryWithBackoff
  gresult,    \* what the operation returned
  envMaxRetries \* parseInt(process.env.MAX_RETRIES): 0 when unset, unparsable or "0"

gvars == <<gop, gtext, gpc, prompt, attempt, calls, outcomes, delays, lastError, gresult,
           envMaxRetries>>

\* State of one application of a pure function
VARIABLES
  farg,       \* the function applied and its argument
  fres        \* whether it has returned, and what

fvars == <<farg, fres>>

\* State of one POST /api/summarize request
VARIABLES
  hbody,      \* req.body
  hkey,       \* whether process.env.GEMINI_API_KEY is set
  hpc,        \* "idle", "received", "scraping", "summarizing", "extracting" or "done"
  hstages,    \* the stages the handler went through, in order
  hscraped,   \* scraped
  hcleaned,   \* cleanedText
  hmeta,      \* metadata
  hsummary,   \* summary
  hresponses  \* the responses sent, in order

hvars == <<hbody, hkey, hpc, hstages, hscraped, hcleaned, hmeta, hsummary, hresponses>>

\* State of the page script: the summarize button, the loader and the output
\* area, and the getSummary invocations under way
VARIABLES
  isLoading,     \* summarizeBtn.disabled, loader shown: setLoadingState's last argument
  requests,      \* per getSummary invocation that passed validation: where it is
  resultContent  \* what the output area shows

uvars == <<isLoading, requests, resultContent>>

vars == <<svars, gvars, fvars, hvars, uvars>>

Deployments == {"rendering", "lightweight"}

\* HTTP statuses a server may answer with (after redirects were followed)
Statuses == {200, 403, 404, 429, 500}

\* validateStatus of axios.get: below 500 in the rendering deployment, the
\* axios default (2xx) in the lightweight one
validateStatus(dep, st) ==
  IF dep = "rendering" THEN st < 500 ELSE st >= 200 /\ st < 300

\* `if (response.status === 403 || response.status === 429) return null`
IsBlockedStatus(st) == st = 403 \/ st = 429

AllFailedMessage(dep) ==
  IF dep = "rendering" THEN AllFailedMessageRendering ELSE AllFailedMessageLightweight

ScraperInit ==
  /\ deployment \in Deployments
  /\ url \in Urls
  /\ pc = "start"
  /\ browser = "none"
  /\ launches = 0
  /\ closeCalls = 0
  /\ closeFailed = FALSE
  /\ gets = 0
  /\ status = 0
  /\ challenge = "unchecked"
  /\ sleeps = <<>>
  /\ title = ""
  /\ doc = NoDoc
  /\ text = <<>>
  /\ thrown = ""
  /\ pResult = Pending
  /\ cResult = Pending
  /\ result = Pending
  /\ errorLog = <<>>
  /\ tiers = <<>>

\* a scrapeWebsite that starts with the lightweight fetcher
FirstTierLightweight(dep) == "cheerio"

\* the first tier scrapeWebsite calls
FirstTier(dep) == IF dep = "rendering" THEN "puppeteer" ELSE "cheerio"

\* scrapeWebsite up to its first await: the validation gate
Validate ==
  /\ pc = "start"
  /\ IF ~isValidUrl(url)
     THEN /\ result' = ErrorResult(InvalidUrlMessage)
          /\ pc' = "done"
          /\ tiers' = tiers
     ELSE /\ result' = result
          /\ tiers' = Append(tiers, FirstTier(deployment))
          /\ pc' = IF FirstTier(deployment) = "puppeteer" THEN "p_launch" ELSE "c_get"
  /\ UNCHANGED <<deployment, url, browser, launches, closeCalls, closeFailed, gets,
                 status, challenge, sleeps, title, doc, text, thrown, pResult,
                 cResult, errorLog>>
  /\ UNCHANGED <<gvars, fvars, hvars, uvars>>

\* an awaited stage of scrapeWithPuppeteer rejects: control goes to the catch block
Throw(msg) ==
  /\ thrown' = msg
  /\ pc' = "p_catch"

\* browser = await puppeteer.launch(...)
P_Launch ==
  /\ pc = "p_launch"
  /\ \E ok \in BOOLEAN :
       IF ok
       THEN /\ browser' = "open"
            /\ launches' = launches + 1
            /\ pc' = "p_newPage"
            /\ thrown' = thrown
       ELSE /\ Throw("Failed to launch the browser process")
            /\ UNCHANGED <<browser, launches>>
  /\ UNCHANGED <<deployment, url, closeCalls, closeFailed, gets, status, challenge,
                 sleeps, title, doc, text, pResult, cResult, result, errorLog, tiers>>
  /\ UNCHANGED <<gvars, fvars, hvars, uvars>>

\* a stage that only succeeds or rejects
Stage(here, next, msgs) ==
  /\ pc = here
  /\ \/ /\ pc' = next
        /\ thrown' = thrown
     \/ \E m \in msgs : Throw(m)
  /\ UNCHANGED <<deployment, url, browser, launches, closeCalls, closeFailed, gets,
                 status, challenge, sleeps, title, doc, text, pResult, cResult,
                 result, errorLog, tiers>>
  /\ UNCHANGED <<gvars, fvars, hvars, uvars>>

\* const page = await browser.newPage()
P_NewPage == Stage("p_newPage", "p_setup", {"Protocol error"})

\* setViewport, evaluateOnNewDocument, setExtraHTTPHeaders, setRequestInterception
P_Setup == Stage("p_setup", "p_goto", {"Protocol error"})

\* await page.goto(url, {waitUntil: 'networkidle2', timeout})
P_Goto ==
  Stage("p_goto", "p_settle",
        {"Navigation timeout of 30000 ms exceeded", "net::ERR_NAME_NOT_RESOLVED"})

\* await sleep(3000)
P_Settle ==
  /\ pc = "p_settle"
  /\ sleeps' = Append(sleeps, SettleDelay)
  /\ pc' = "p_check"
  /\ UNCHANGED <<deployment, url, browser, launches, closeCalls, closeFailed, gets,
                 status, challenge, title, doc, text, thrown, pResult, cResult,
                 result, errorLog, tiers>>
  /\ UNCHANGED <<gvars, fvars, hvars, uvars>>

\* a fetcher that waits whatever the check found
AfterChallengeCheckAlwaysWait(hasCloudflare) == "p_wait"

\* if (hasCloudflare) { await sleep(8000) }: where the check leads
AfterChallengeCheck(hasCloudflare) == IF hasCloudflare THEN "p_wait" ELSE "p_title"

\* const hasCloudflare = await page.evaluate(...)
P_CheckChallenge ==
  /\ pc = "p_check"
  /\ \/ \E hasCloudflare \in BOOLEAN :
          /\ challenge' = IF hasCloudflare THEN "detected" ELSE "absent"
          /\ pc' = AfterChallengeCheck(hasCloudflare)
          /\ thrown' = thrown
     \/ /\ Throw("Evaluation failed")
        /\ challenge' = challenge
  /\ UNCHANGED <<deployment, url, browser, launches, closeCalls, closeFailed, gets,
                 status, sleeps, title, doc, text, pResult, cResult, result,
                 errorLog, tiers>>
  /\ UNCHANGED <<gvars, fvars, hvars, uvars>>

\* if (hasCloudflare) await sleep(8000); the page may or may not have moved on
P_ChallengeWait ==
  /\ pc = "p_wait"
  /\ sleeps' = Append(sleeps, ChallengeDelay)
  /\ \E still \in BOOLEAN : challenge' = IF still THEN "persisting" ELSE "cleared"
  /\ pc' = "p_title"
  /\ UNCHANGED <<deployment, url, browser, launches, closeCalls, closeFailed, gets,
                 status, title, doc, text, thrown, pResult, cResult, result,
                 errorLog, tiers>>
  /\ UNCHANGED <<gvars, fvars, hvars, uvars>>

\* the titles a rendered page may have
PageTitles(ch) ==
  {"", "Article"} \cup (IF ch = "persisting" THEN {"Just a moment..."} ELSE {})

\* const title = await page.title()
P_Title ==
  /\ pc = "p_title"
  /\ \/ \E t \in PageTitles(challenge) :
          /\ title' = t
          /\ pc' = "p_remove"
          /\ thrown' = thrown
     \/ /\ Throw("Protocol error")
        /\ title' = title
  /\ UNCHANGED <<deployment, url, browser, launches, closeCalls, closeFailed, gets,
                 status, challenge, sleeps, doc, text, pResult, cResult, result,
                 errorLog, tiers>>
  /\ UNCHANGED <<gvars, fvars, hvars, uvars>>

\* await page.evaluate(() => unwantedSelectors.forEach(... el.remove()))
P_RemoveNoise == Stage("p_remove", "p_extract", {"Evaluation failed"})

\* const text = await page.evaluate(...): the content selection
P_Extract ==
  /\ pc = "p_extract"
  /\ \/ \E d \in DocsOver(mainSelectors) :
          /\ doc' = d
          /\ text' = RenderedText(d)
          /\ pc' = "p_close"
          /\ thrown' = thrown
     \/ /\ Throw("Evaluation failed")
        /\ UNCHANGED <<doc, text>>
  /\ UNCHANGED <<deployment, url, browser, launches, closeCalls, closeFailed, gets,
                 status, challenge, sleeps, title, pResult, cResult, result,
                 errorLog, tiers>>
  /\ UNCHANGED <<gvars, fvars, hvars, uvars>>

\* title || 'Extracted Content'
RenderedTitle(t) == IF t = "" THEN "Extracted Content" ELSE t

\* what scrapeWithPuppeteer returns after the browser was closed
RenderedResult(t, raw) ==
  TierResult(RenderedTitle(t), NormalizeScraped(raw), "puppeteer-stealth")

\* await browser.close() on the normal path, then the cleaning and the return
P_Close ==
  /\ pc = "p_close"
  /\ closeCalls' = closeCalls + 1
  /\ \/ /\ browser' \in {"open", "closed"}
        /\ closeFailed' = TRUE
        /\ Throw("Protocol error (Browser.close)")
        /\ pResult' = pResult
     \/ /\ browser' = "closed"
        /\ pResult' = RenderedResult(title, text)
        /\ pc' = "p_done"
        /\ UNCHANGED <<thrown, closeFailed>>
  /\ UNCHANGED <<deployment, url, launches, gets, status, challenge, sleeps, title,
                 doc, text, cResult, result, errorLog, tiers>>
  /\ UNCHANGED <<gvars, fvars, hvars, uvars>>

\* a catch block that leaves the browser alone
CatchClosesNever(br) == FALSE

\* `if (browser)`: the handle is set once launch resolved
CatchCloses(br) == br # "none"

\* a catch block whose close() is awaited bare
CatchLetsCloseErrorThrough == FALSE

\* `.catch(() => {})` on the close() of the catch block: a rejection of that
\* close() is handled there
CatchSwallowsCloseError == TRUE

\* what scrapeWithPuppeteer settles with when the close() of its catch
\* block rejects
AfterFailedCatchClose ==
  IF CatchSwallowsCloseError THEN Null ELSE Raised("Protocol error (Browser.close)")

\* catch (error): log, close the browser if there is one, return null
P_Catch ==
  /\ pc = "p_catch"
  /\ errorLog' = Append(errorLog, LogEntry("scrapeWithPuppeteer", thrown))
  /\ thrown' = ""
  /\ IF CatchCloses(browser)
     THEN /\ closeCalls' = closeCalls + 1
          /\ \/ /\ browser' = "closed"
                /\ closeFailed' = closeFailed
                /\ pResult' = Null
             \/ /\ browser' = browser
                /\ closeFailed' = TRUE
                /\ pResult' = AfterFailedCatchClose
     ELSE /\ UNCHANGED <<closeCalls, browser, closeFailed>>
          /\ pResult' = Null
  /\ pc' = "p_done"
  /\ UNCHANGED <<deployment, url, launches, gets, status, challenge, sleeps, title,
                 doc, text, cResult, result, tiers>>
  /\ UNCHANGED <<gvars, fvars, hvars, uvars>>

\* scrapeWebsite after scrapeWithPuppeteer settled: return its result, let
\* its exception through (there is no try here), or fall back
AfterPuppeteer ==
  /\ pc = "p_done"
  /\ IF pResult.kind = "success" \/ pResult.kind = "raised"
     THEN /\ result' = pResult
          /\ pc' = "done"
          /\ UNCHANGED <<tiers, doc, text, title, challenge, sleeps>>
     ELSE /\ result' = result
          /\ tiers' = Append(tiers, "cheerio")
          /\ pc' = "c_get"
          /\ doc' = NoDoc
          /\ text' = <<>>
          /\ title' = ""
          /\ challenge' = "unchecked"
          /\ sleeps' = <<>>
  /\ UNCHANGED <<deployment, url, browser, launches, closeCalls, closeFailed, gets,
                 status, thrown, pResult, cResult, errorLog>>
  /\ UNCHANGED <<gvars, fvars, hvars, uvars>>


\* the message of the error axios raises for a status validateStatus rejects
StatusErrorMessage(st) ==
  CASE st = 403 -> "Request failed with status code 403"
    [] st = 404 -> "Request failed with status code 404"
    [] st = 429 -> "Request failed with status code 429"
    [] OTHER -> "Request failed with status code 500"

\* what the catch block of scrapeWithCheerio writes for an error
CheerioLogged(dep, st, msg) ==
  IF dep = "rendering" /\ st = 403
  THEN "Cheerio scraping blocked: 403 Forbidden (site has anti-bot protection)"
  ELSE msg

\* const response = await axios.get(url, ...), the blocked-status check, and
\* the catch block when the request fails
C_Get ==
  /\ pc = "c_get"
  /\ gets' = gets + 1
  /\ \/ \E m \in {"timeout of 30000ms exceeded", "getaddrinfo ENOTFOUND"} :
          /\ errorLog' = Append(errorLog,
                                LogEntry("scrapeWithCheerio", CheerioLogged(deployment, 0, m)))
          /\ cResult' = Null
          /\ pc' = "c_done"
          /\ status' = status
     \/ \E st \in Statuses :
          IF ~validateStatus(deployment, st)
          THEN /\ errorLog' = Append(errorLog,
                    LogEntry("scrapeWithCheerio",
                             CheerioLogged(deployment, st, StatusErrorMessage(st))))
               /\ cResult' = Null
               /\ pc' = "c_done"
               /\ status' = st
          ELSE IF IsBlockedStatus(st)
          THEN /\ cResult' = Null
               /\ pc' = "c_done"
               /\ status' = st
               /\ errorLog' = errorLog
          ELSE /\ cResult' = cResult
               /\ pc' = "c_parse"
               /\ status' = st
               /\ errorLog' = errorLog
  /\ UNCHANGED <<deployment, url, browser, launches, closeCalls, closeFailed,
                 challenge, sleeps, title, doc, text, thrown, pResult, result, tiers>>
  /\ UNCHANGED <<gvars, fvars, hvars, uvars>>

\* $('title').text().trim() || $('h1').first().text().trim() || 'No Title'
ResolveTitle(titleTag, h1) ==
  IF titleTag # "" THEN titleTag ELSE IF h1 # "" THEN h1 ELSE "No Title"

\* the <title> and first <h1> texts a fetched document may have
TitlePairs == {<<"", "">>, <<"", "Heading">>, <<"Title", "Heading">>}

\* what scrapeWithCheerio returns for a parsed document
LightweightResult(t, d) ==
  TierResult(t, NormalizeScraped(LongestText(d)), "cheerio")

\* cheerio.load(response.data), noise removal, title, content selection,
\* cleaning and the return; or the catch block when the parsing throws
C_Parse ==
  /\ pc = "c_parse"
  /\ \/ \E d \in DocsOver(contentSelectors), tp \in TitlePairs :
          /\ doc' = d
          /\ title' = ResolveTitle(tp[1], tp[2])
          /\ text' = NormalizeScraped(LongestText(d))
          /\ cResult' = LightweightResult(ResolveTitle(tp[1], tp[2]), d)
          /\ errorLog' = errorLog
     \/ /\ errorLog' = Append(errorLog,
              LogEntry("scrapeWithCheerio",
                       CheerioLogged(deployment, status, "cheerio.load() expects a string")))
        /\ cResult' = Null
        /\ UNCHANGED <<doc, title, text>>
  /\ pc' = "c_done"
  /\ UNCHANGED <<deployment, url, browser, launches, closeCalls, closeFailed, gets,
                 status, challenge, sleeps, thrown, pResult, result, tiers>>
  /\ UNCHANGED <<gvars, fvars, hvars, uvars>>

\* a final error that passes on the last logged message
FinalResultWithCause(dep, r) ==
  IF r.kind = "success" THEN r
  ELSE ErrorResult(IF errorLog # <<>> THEN errorLog[Len(errorLog)].message
                   ELSE AllFailedMessage(dep))

\* scrapeWebsite after scrapeWithCheerio returned
FinalResult(dep, r) ==
  IF r.kind = "success" THEN r ELSE ErrorResult(AllFailedMessage(dep))

\* a scrapeWebsite that tries the lightweight fetcher again after it failed
AfterCheerioRetrying ==
  /\ pc = "c_done"
  /\ IF cResult = Null /\ gets < 2
     THEN /\ pc' = "c_get"
          /\ result' = result
     ELSE /\ pc' = "done"
          /\ result' = FinalResult(deployment, cResult)
  /\ UNCHANGED <<deployment, url, browser, launches, closeCalls, closeFailed, gets,
                 status, challenge, sleeps, title, doc, text, thrown, pResult,
                 cResult, errorLog, tiers>>
  /\ UNCHANGED <<gvars, fvars, hvars, uvars>>

\* scrapeWebsite after scrapeWithCheerio returned: its result or the unified error
AfterCheerio ==
  /\ pc = "c_done"
  /\ result' = FinalResult(deployment, cResult)
  /\ pc' = "done"
  /\ UNCHANGED <<deployment, url, browser, launches, closeCalls, closeFailed, gets,
                 status, challenge, sleeps, title, doc, text, thrown, pResult,
                 cResult, errorLog, tiers>>
  /\ UNCHANGED <<gvars, fvars, hvars, uvars>>

ScraperNext ==
  \/ Validate
  \/ P_Launch
  \/ P_NewPage
  \/ P_Setup
  \/ P_Goto
  \/ P_Settle
  \/ P_CheckChallenge
  \/ P_ChallengeWait
  \/ P_Title
  \/ P_RemoveNoise
  \/ P_Extract
  \/ P_Close
  \/ P_Catch
  \/ AfterPuppeteer
  \/ C_Get
  \/ C_Parse
  \/ AfterCheerio


\* ------------------------------------------------------------------
\* Summarization client (geminiClient): retryWithBackoff, summarizeText,
\* extractKeyPoints.  An error message is a sequence of tokens, so that
\* message.includes('429') is a test on the tokens.
\* ------------------------------------------------------------------
maxRetries == 3
BackoffBase == 1000
BackoffCap == 10000
SummaryMaxLength == 8000
KeyPointsMaxLength == 6000

Includes(msg, tok) == \E i \in DOMAIN msg : msg[i] = tok

Msg429 == <<"[GoogleGenerativeAI Error]", "429", "Too Many Requests">>
MsgExhausted == <<"RESOURCE_EXHAUSTED", "quota exceeded">>
Msg500 == <<"[GoogleGenerativeAI Error]", "500", "Internal Server Error">>
MsgEmpty == <<>>
MsgBlocked == <<"Text not available.", "Response was blocked due to SAFETY">>

Error(msg) == [kind |-> "error", message |-> msg]
Response(blocked, t) == [kind |-> "response", blocked |-> blocked, text |-> t]
NoError == [kind |-> "none", message |-> <<>>]

\* what model.generateContent may do on one call
UpstreamOutcomes ==
  {Error(m) : m \in {Msg429, MsgExhausted, Msg500, MsgEmpty}}
    \cup {Response(FALSE, "Summary"), Response(FALSE, ""), Response(TRUE, "")}

\* a retry loop that takes every error for a rate-limit error
IsRateLimitErrorAlways(e) == TRUE

\* error.message && (error.message.includes('429') ||
\*                   error.message.includes('RESOURCE_EXHAUSTED'))
IsRateLimitError(e) ==
  /\ e.message # <<>>
  /\ (Includes(e.message, "429") \/ Includes(e.message, "RESOURCE_EXHAUSTED"))

RECURSIVE Pow2(_)
Pow2(i) == IF i = 0 THEN 1 ELSE 2 * Pow2(i - 1)

Min(a, b) == IF a < b THEN a ELSE b

\* a backoff that does not grow
BackoffDelayFixed(i) == BackoffBase

\* Math.min(1000 * Math.pow(2, i), 10000)
BackoffDelay(i) == Min(BackoffBase * Pow2(i), BackoffCap)

\* a loop that runs one iteration more: `i <= maxRetries`
LoopContinuesInclusive(i) == i <= maxRetries

\* `for (let i = 0; i < maxRetries; i++)`: whether iteration i runs
LoopContinues(i) == i < maxRetries

\* the largest MAX_RETRIES the environment is given
MaxEnvRetries == 4

\* the values of parseInt(process.env.MAX_RETRIES), NaN and 0 both as 0
EnvMaxRetries == 0..MaxEnvRetries

\* SCRAPER_CONFIG.maxRetries: parseInt(process.env.MAX_RETRIES) || 3
DefaultMaxRetries == 3
ConfiguredMaxRetries(env) == IF env = 0 THEN DefaultMaxRetries ELSE env

GPending == [pending |-> TRUE]
GSuccess(t) == [success |-> TRUE, text |-> t]

\* the catch block of summarizeText
SummarizeFailure(e) ==
  [success |-> FALSE,
   error |-> IF e.message # <<>> THEN e.message ELSE <<"Failed to generate summary">>]

\* the catch block of extractKeyPoints
KeyPointsFailure(e) ==
  [success |-> FALSE, error |-> e.message, text |-> ""]

Failure(op, e) ==
  IF op = "summarizeText" THEN SummarizeFailure(e) ELSE KeyPointsFailure(e)

PromptMaxLength(op) ==
  IF op = "summarizeText" THEN SummaryMaxLength ELSE KeyPointsMaxLength

Operations == {"summarizeText", "extractKeyPoints"}

\* the texts handed to the client: short, and longer than each budget
ClientTexts ==
  { <<W(MinContentLength + 1)>>,
    <<W(KeyPointsMaxLength), S(1), W(1000)>>,
    <<W(SummaryMaxLength), S(1), W(1000)>> }

GeminiIdle ==
  /\ gop = "summarizeText"
  /\ gtext = <<>>
  /\ gpc = "idle"
  /\ prompt = <<>>
  /\ attempt = 0
  /\ calls = 0
  /\ outcomes = <<>>
  /\ delays = <<>>
  /\ lastError = NoError
  /\ gresult = GPending
  /\ envMaxRetries = 0

GeminiInit ==
  /\ gop \in Operations
  /\ gtext \in ClientTexts
  /\ gpc = "start"
  /\ prompt = <<>>
  /\ attempt = 0
  /\ calls = 0
  /\ outcomes = <<>>
  /\ delays = <<>>
  /\ lastError = NoError
  /\ gresult = GPending
  /\ envMaxRetries \in EnvMaxRetries

\* summarizeText / extractKeyPoints up to the first await: truncate the text,
\* build the prompt, enter retryWithBackoff
G_Invoke ==
  /\ gpc = "start"
  /\ prompt' = Substring(gtext, PromptMaxLength(gop))
  /\ attempt' = 0
  /\ IF LoopContinues(0)
     THEN /\ gpc' = "call"
          /\ gresult' = gresult
     ELSE /\ gpc' = "done"
          /\ gresult' = Failure(gop, lastError)
  /\ UNCHANGED <<gop, gtext, calls, outcomes, delays, lastError, envMaxRetries>>
  /\ UNCHANGED <<svars, fvars, hvars, uvars>>

\* what the operation returns once generateContent resolved: response.text()
\* gives the text, or throws when the response was blocked
AfterResponse(op, r) ==
  IF r.blocked THEN Failure(op, Error(MsgBlocked)) ELSE GSuccess(r.text)

\* one iteration of the retry loop: await fn(), and the catch block up to
\* its await (rate limit) or its throw (any other error)
G_Call ==
  /\ gpc = "call"
  /\ calls' = calls + 1
  /\ \E o \in UpstreamOutcomes :
       /\ outcomes' = Append(outcomes, o)
       /\ IF o.kind = "response"
          THEN /\ gresult' = AfterResponse(gop, o)
               /\ gpc' = "done"
               /\ lastError' = lastError
          ELSE /\ lastError' = o
               /\ IF IsRateLimitError(o)
                  THEN /\ gpc' = "sleep"
                       /\ gresult' = gresult
                  ELSE /\ gpc' = "done"
                       /\ gresult' = Failure(gop, o)
  /\ UNCHANGED <<gop, gtext, prompt, attempt, delays, envMaxRetries>>
  /\ UNCHANGED <<svars, fvars, hvars, uvars>>

\* the backoff sleep, i++, and the loop test; `throw lastError` after the loop
G_Sleep ==
  /\ gpc = "sleep"
  /\ delays' = Append(delays, BackoffDelay(attempt))
  /\ attempt' = attempt + 1
  /\ IF LoopContinues(attempt + 1)
     THEN /\ gpc' = "call"
          /\ gresult' = gresult
     ELSE /\ gpc' = "done"
          /\ gresult' = Failure(gop, lastError)
  /\ UNCHANGED <<gop, gtext, prompt, calls, outcomes, lastError, envMaxRetries>>
  /\ UNCHANGED <<svars, fvars, hvars, uvars>>

GeminiNext ==
  \/ G_Invoke
  \/ G_Call
  \/ G_Sleep

\* ------------------------------------------------------------------
\* Pure functions, each applied to one argument
\* ------------------------------------------------------------------
\* number of content selectors, other than body, that match in a document
\* handed to a content selection
MaxCandidates == 2

\* texts of the candidates of a content selection: those of ElemTexts, an
\* empty one, and a second one of exactly 200 characters
SelectionTexts ==
  ElemTexts \cup { <<>>, <<W(MainContentThreshold - 100), S(1), W(99)>> }

\* the runs short texts are made of
ShortRuns == {S(1), S(2), W(1), W(2), X(1), Dot(1)}

\* the texts of at most MaxRuns runs
ShortTexts ==
  { t \in UNION { [1..n -> ShortRuns] : n \in 0..MaxRuns } :
      \A i \in 1..(Len(t) - 1) : t[i].k # t[i + 1].k }

\* texts around the length limits: 5000 and 10000 characters
LongTexts ==
  { <<W(maxTextLength - 1), S(5), W(maxTextLength)>>,
    <<W(maxTextLength), S(1), W(1)>>,
    <<W(DefaultTruncateLength)>>,
    <<W(DefaultTruncateLength + 1)>> }

\* n one-letter words separated by single spaces
Words(n) == [i \in 1..(2 * n - 1) |-> IF i % 2 = 1 THEN W(1) ELSE S(1)]

WordCounts == {99, 100, 299, 300, 301, 400, 500, 700}

\* the values new Date() may have
Instants == {0, 1}

NotApplied == [done |-> FALSE]
Returned(v) == [done |-> TRUE, value |-> v]

FunctionIdle ==
  /\ farg = [fn |-> "none"]
  /\ fres = NotApplied

\* the documents handed to the content selection over the list sels
SelectionArgs(fn, sels) ==
  \E matched \in Matches(sels, MaxCandidates) :
    \E f \in [matched -> SelectionTexts], tb \in SelectionTexts :
      farg = [fn |-> fn, doc |-> DocOf(matched, f, tb)]

FunctionInit ==
  /\ \/ SelectionArgs("LongestText", contentSelectors)
     \/ SelectionArgs("RenderedText", mainSelectors)
     \/ \E t \in ShortTexts : farg = [fn |-> "cleanText", text |-> t]
     \/ \E t \in ShortTexts \cup LongTexts :
          farg = [fn |-> "NormalizeScraped", text |-> t]
     \/ \E t \in ShortTexts, m \in {1, 3} :
          farg = [fn |-> "truncateText", text |-> t, maxLength |-> m]
     \/ \E t \in LongTexts : farg = [fn |-> "truncateText", text |-> t]
     \/ \E t \in ShortTexts \cup {Words(n) : n \in WordCounts} :
          farg = [fn |-> "extractMetadata", text |-> t]
  /\ fres = NotApplied

\* the selector loop of scrapeWithCheerio
F_LongestText ==
  /\ farg.fn = "LongestText"
  /\ ~fres.done
  /\ fres' = Returned(LongestText(farg.doc))
  /\ UNCHANGED <<farg, svars, gvars, hvars, uvars>>

\* the page.evaluate callback of scrapeWithPuppeteer
F_RenderedText ==
  /\ farg.fn = "RenderedText"
  /\ ~fres.done
  /\ fres' = Returned(RenderedText(farg.doc))
  /\ UNCHANGED <<farg, svars, gvars, hvars, uvars>>

F_cleanText ==
  /\ farg.fn = "cleanText"
  /\ ~fres.done
  /\ fres' = Returned(cleanText(farg.text))
  /\ UNCHANGED <<farg, svars, gvars, hvars, uvars>>

\* the normalisation both fetchers apply to the text they extracted
F_NormalizeScraped ==
  /\ farg.fn = "NormalizeScraped"
  /\ ~fres.done
  /\ fres' = Returned(NormalizeScraped(farg.text))
  /\ UNCHANGED <<farg, svars, gvars, hvars, uvars>>

\* the same normalisation applied to the text it returned
F_Renormalize ==
  /\ farg.fn \in {"cleanText", "NormalizeScraped"}
  /\ fres.done
  /\ "again" \notin DOMAIN fres
  /\ fres' = [done |-> TRUE,
              value |-> fres.value,
              again |-> IF farg.fn = "cleanText"
                        THEN cleanText(fres.value)
                        ELSE NormalizeScraped(fres.value)]
  /\ UNCHANGED <<farg, svars, gvars, hvars, uvars>>

\* truncateText(text, maxLength), maxLength being 5000 when it is not given
F_truncateText ==
  /\ farg.fn = "truncateText"
  /\ ~fres.done
  /\ LET maxLength == IF "maxLength" \in DOMAIN farg
                      THEN farg.maxLength
                      ELSE DefaultTruncateLength
     IN fres' = Returned(truncateText(farg.text, maxLength))
  /\ UNCHANGED <<farg, svars, gvars, hvars, uvars>>

F_extractMetadata ==
  /\ farg.fn = "extractMetadata"
  /\ ~fres.done
  /\ \E now \in Instants : fres' = Returned(extractMetadata(farg.text, now))
  /\ UNCHANGED <<farg, svars, gvars, hvars, uvars>>

FunctionNext ==
  \/ F_LongestText
  \/ F_RenderedText
  \/ F_cleanText
  \/ F_NormalizeScraped
  \/ F_Renormalize
  \/ F_truncateText
  \/ F_extractMetadata

\* ------------------------------------------------------------------
\* The POST /api/summarize handler
\* ------------------------------------------------------------------
\* req.body: not parsed (undefined), parsed without a url (absent or empty),
\* or parsed with a url string
RequestBodies ==
  {[parsed |-> FALSE], [parsed |-> TRUE]}
    \cup {[parsed |-> TRUE, url |-> u] : u \in Urls}

\* !url is false
HasUrl(body) == "url" \in DOMAIN body

\* the values Date.now() - startTime may have
Durations == {0, 1}

NoMetadata == [wordCount |-> 0]

NoReply == [status |-> 0]
Reply(st, body) == [status |-> st, body |-> body]
ErrorBody(error, code) == [error |-> error, code |-> code]

\* the catch block of the handler
InternalError ==
  Reply(500, ErrorBody("An unexpected error occurred while processing your request",
                       "INTERNAL_ERROR"))

\* a validation that tests the API key before the URL
ValidationReplyKeyFirst(body, key) ==
  IF ~key
  THEN Reply(500, ErrorBody("Server configuration error: API key not configured",
                            "MISSING_API_KEY"))
  ELSE IF ~HasUrl(body)
       THEN Reply(400, ErrorBody("URL is required", "MISSING_URL"))
       ELSE NoReply

\* the validation of the handler: the reply it sends, if any
ValidationReply(body, key) ==
  IF ~HasUrl(body)
  THEN Reply(400, ErrorBody("URL is required", "MISSING_URL"))
  ELSE IF ~key
       THEN Reply(500, ErrorBody("Server configuration error: API key not configured",
                                 "MISSING_API_KEY"))
       ELSE NoReply

\* summary.error is truthy
HasError(r) == "error" \in DOMAIN r /\ r.error # <<>>

\* a response that carries the error message of a failed extraction
TextOrErrorMessage(r) == IF "error" \in DOMAIN r THEN r.error ELSE r.text

\* keyPoints.text || ''
TextOrEmpty(r) == IF "text" \in DOMAIN r /\ r.text # "" THEN r.text ELSE ""

\* the response object of a successful request
SuccessBody(scraped, summary, keyPoints, metadata, processingTime) ==
  [success |-> TRUE,
   title |-> scraped.title,
   summary |-> summary.text,
   keyPoints |-> TextOrEmpty(keyPoints),
   metadata |-> [wordCount |-> metadata.wordCount,
                 sentenceCount |-> metadata.sentenceCount,
                 characterCount |-> metadata.characterCount,
                 readingTime |-> metadata.readingTime,
                 scrapingMethod |-> scraped.method,
                 processingTime |-> <<processingTime, "ms">>,
                 timestamp |-> metadata.timestamp]]

HandlerIdle ==
  /\ hbody = [parsed |-> FALSE]
  /\ hkey = FALSE
  /\ hpc = "idle"
  /\ hstages = <<>>
  /\ hscraped = Pending
  /\ hcleaned = <<>>
  /\ hmeta = NoMetadata
  /\ hsummary = GPending
  /\ hresponses = <<>>

HandlerInit ==
  /\ hbody \in RequestBodies
  /\ hkey \in BOOLEAN
  /\ hpc = "received"
  /\ hstages = <<>>
  /\ hscraped = Pending
  /\ hcleaned = <<>>
  /\ hmeta = NoMetadata
  /\ hsummary = GPending
  /\ hresponses = <<>>

\* a call of summarizeText or extractKeyPoints is entered
ClientCalled(op, t) ==
  /\ gop' = op
  /\ gtext' = t
  /\ gpc' = "start"
  /\ prompt' = <<>>
  /\ attempt' = 0
  /\ calls' = 0
  /\ outcomes' = <<>>
  /\ delays' = <<>>
  /\ lastError' = NoError
  /\ gresult' = GPending
  /\ envMaxRetries' = envMaxRetries

\* the scrapeWebsite call returned: its state is gone, the record of the
\* tiers it called apart
ScrapeReturned ==
  /\ pc' = "idle"
  /\ url' = [scheme |-> "", host |-> ""]
  /\ browser' = "none"
  /\ launches' = 0
  /\ closeCalls' = 0
  /\ closeFailed' = FALSE
  /\ gets' = 0
  /\ status' = 0
  /\ challenge' = "unchecked"
  /\ sleeps' = <<>>
  /\ title' = ""
  /\ doc' = NoDoc
  /\ text' = <<>>
  /\ thrown' = ""
  /\ pResult' = Pending
  /\ cResult' = Pending
  /\ result' = Pending
  /\ errorLog' = <<>>
  /\ UNCHANGED <<deployment, tiers>>

\* the handler up to its first await: the destructuring of req.body (a
\* TypeError when there is no body, caught by the catch block), the two
\* validations, and the call of scrapeWebsite
H_Validate ==
  /\ hpc = "received"
  /\ IF ~hbody.parsed
     THEN /\ hresponses' = Append(hresponses, InternalError)
          /\ hstages' = hstages
          /\ hpc' = "done"
          /\ UNCHANGED <<url, pc>>
     ELSE IF ValidationReply(hbody, hkey) # NoReply
     THEN /\ hresponses' = Append(hresponses, ValidationReply(hbody, hkey))
          /\ hstages' = IF ValidationReply(hbody, hkey).body.code = "MISSING_URL"
                         THEN <<"url">>
                         ELSE <<"url", "apiKey">>
          /\ hpc' = "done"
          /\ UNCHANGED <<url, pc>>
     ELSE /\ hresponses' = hresponses
          /\ hstages' = <<"url", "apiKey", "scrape">>
          /\ hpc' = "scraping"
          /\ url' = hbody.url
          /\ pc' = "start"
  /\ UNCHANGED <<hbody, hkey, hscraped, hcleaned, hmeta, hsummary>>
  /\ UNCHANGED <<deployment, browser, launches, closeCalls, closeFailed, gets,
                 status, challenge, sleeps, title, doc, text, thrown, pResult,
                 cResult, result, errorLog, tiers>>
  /\ UNCHANGED <<gvars, fvars, uvars>>

\* scrapeWebsite resolved: the SCRAPING_FAILED reply, or cleanText,
\* extractMetadata and the call of summarizeText
H_AfterScrape ==
  /\ hpc = "scraping"
  /\ pc = "done"
  /\ hscraped' = result
  /\ IF result.kind = "raised"
     THEN /\ hresponses' = Append(hresponses, InternalError)
          /\ hpc' = "done"
          /\ UNCHANGED <<hstages, hcleaned, hmeta, gvars>>
     ELSE IF result.kind = "error"
     THEN /\ hresponses' =
               Append(hresponses, Reply(400, ErrorBody(result.error, "SCRAPING_FAILED")))
          /\ hpc' = "done"
          /\ UNCHANGED <<hstages, hcleaned, hmeta, gvars>>
     ELSE /\ hcleaned' = cleanText(result.text)
          /\ \E now \in Instants : hmeta' = extractMetadata(cleanText(result.text), now)
          /\ hstages' = hstages \o <<"clean", "summarize">>
          /\ ClientCalled("summarizeText", cleanText(result.text))
          /\ hpc' = "summarizing"
          /\ hresponses' = hresponses
  /\ ScrapeReturned
  /\ UNCHANGED <<hbody, hkey, hsummary, fvars, uvars>>

\* summarizeText resolved: the SUMMARIZATION_FAILED reply, or the call of
\* extractKeyPoints
H_AfterSummarize ==
  /\ hpc = "summarizing"
  /\ gpc = "done"
  /\ hsummary' = gresult
  /\ IF HasError(gresult)
     THEN /\ hresponses' =
               Append(hresponses,
                      Reply(500, ErrorBody(<<"Failed to generate summary: ">> \o gresult.error,
                                           "SUMMARIZATION_FAILED")))
          /\ hpc' = "done"
          /\ UNCHANGED <<hstages, gvars>>
     ELSE /\ hstages' = Append(hstages, "keyPoints")
          /\ ClientCalled("extractKeyPoints", hcleaned)
          /\ hpc' = "extracting"
          /\ hresponses' = hresponses
  /\ UNCHANGED <<hbody, hkey, hscraped, hcleaned, hmeta, svars, fvars, uvars>>

\* extractKeyPoints resolved: the response is built and sent
H_Respond ==
  /\ hpc = "extracting"
  /\ gpc = "done"
  /\ \E processingTime \in Durations :
       hresponses' =
         Append(hresponses,
                Reply(200, SuccessBody(hscraped, hsummary, gresult, hmeta, processingTime)))
  /\ hpc' = "done"
  /\ UNCHANGED <<hbody, hkey, hstages, hscraped, hcleaned, hmeta, hsummary>>
  /\ UNCHANGED <<svars, gvars, fvars, uvars>>

HandlerNext ==
  \/ H_Validate
  \/ H_AfterScrape
  \/ H_AfterSummarize
  \/ H_Respond

\* ------------------------------------------------------------------
\* Page script (frontend): the click and keypress listeners, getSummary and
\* setLoadingState.  Every action is one run of the event loop: a listener
\* up to the first await of getSummary, or the continuation of a getSummary
\* after an await settled.
\* ------------------------------------------------------------------

\* the largest number of getSummary invocations that send a request
MaxRequests == 4

\* urlInput.value.trim(): empty, not an http(s) URL, or an http(s) URL
UrlInputs == {"", "not a url", "https://example.com"}

\* the page after DOMContentLoaded: button enabled, nothing requested
FrontendIdle ==
  /\ isLoading = FALSE
  /\ requests = <<>>
  /\ resultContent = "placeholder"

\* getSummary up to its first await: validation, setLoadingState(true), and
\* the fetch of /api/summarize
getSummary(value) ==
  IF value # "https://example.com"
  THEN /\ resultContent' = "error"
       /\ UNCHANGED <<isLoading, requests>>
  ELSE /\ Len(requests) < MaxRequests
       /\ isLoading' = TRUE
       /\ resultContent' = "loading-message"
       /\ requests' = Append(requests, "fetch")

\* a click on the summarize button; a disabled button dispatches no click
Click ==
  /\ ~isLoading
  /\ \E value \in UrlInputs : getSummary(value)
  /\ UNCHANGED <<svars, gvars, fvars, hvars>>

\* the Enter key pressed in the URL input
EnterKey ==
  /\ \E value \in UrlInputs : getSummary(value)
  /\ UNCHANGED <<svars, gvars, fvars, hvars>>

\* `finally { setLoadingState(false) }` of invocation i, after displayResults
\* or showError
Settled(i, shown) ==
  /\ resultContent' = shown
  /\ isLoading' = FALSE
  /\ requests' = [requests EXCEPT ![i] = "settled"]

\* await fetch(...) of invocation i settles: the response arrives, or the
\* request fails and the catch and finally blocks run
FetchSettles ==
  /\ \E i \in DOMAIN requests :
       /\ requests[i] = "fetch"
       /\ \/ /\ requests' = [requests EXCEPT ![i] = "json"]
             /\ UNCHANGED <<isLoading, resultContent>>
          \/ Settled(i, "error")
  /\ UNCHANGED <<svars, gvars, fvars, hvars>>

\* await response.json() of invocation i settles: displayResults for an ok
\* response, showError otherwise, then the finally block
JsonSettles ==
  /\ \E i \in DOMAIN requests :
       /\ requests[i] = "json"
       /\ \E shown \in {"results", "error"} : Settled(i, shown)
  /\ UNCHANGED <<svars, gvars, fvars, hvars>>

FrontendNext == Click \/ EnterKey \/ FetchSettles \/ JsonSettles


\* ------------------------------------------------------------------
\* Specifications
\* ------------------------------------------------------------------
\* no scrapeWebsite call under way
ScraperAtRest ==
  /\ url = [scheme |-> "", host |-> ""]
  /\ pc = "idle"
  /\ browser = "none"
  /\ launches = 0
  /\ closeCalls = 0
  /\ closeFailed = FALSE
  /\ gets = 0
  /\ status = 0
  /\ challenge = "unchecked"
  /\ sleeps = <<>>
  /\ title = ""
  /\ doc = NoDoc
  /\ text = <<>>
  /\ thrown = ""
  /\ pResult = Pending
  /\ cResult = Pending
  /\ result = Pending
  /\ errorLog = <<>>
  /\ tiers = <<>>

ScraperIdle == deployment = "lightweight" /\ ScraperAtRest

\* one scrapeWebsite invocation, in either deployment
Init == ScraperInit /\ GeminiIdle /\ FunctionIdle /\ HandlerIdle /\ FrontendIdle
Next == ScraperNext
Spec == Init /\ [][Next]_vars

\* one summarizeText or extractKeyPoints invocation
ClientInit == ScraperIdle /\ GeminiInit /\ FunctionIdle /\ HandlerIdle /\ FrontendIdle
ClientNext == GeminiNext
ClientSpec == ClientInit /\ [][ClientNext]_vars

\* one application of one pure function
FunctionSpecInit ==
  ScraperIdle /\ GeminiIdle /\ FunctionInit /\ HandlerIdle /\ FrontendIdle
FunctionSpec == FunctionSpecInit /\ [][FunctionNext]_vars

\* one POST /api/summarize request, with the scrape and the client calls it makes
ServerInit ==
  /\ deployment \in Deployments
  /\ ScraperAtRest
  /\ GeminiIdle
  /\ FunctionIdle
  /\ HandlerInit
  /\ FrontendIdle
ServerNext == HandlerNext \/ ScraperNext \/ GeminiNext
ServerSpec == ServerInit /\ [][ServerNext]_vars

\* one page: the user events and the requests of its getSummary invocations
FrontendInit ==
  ScraperIdle /\ GeminiIdle /\ FunctionIdle /\ HandlerIdle /\ FrontendIdle
FrontendSpec == FrontendInit /\ [][FrontendNext]_vars


\* ------------------------------------------------------------------
\* Properties
\* ------------------------------------------------------------------

\* the input is a well-formed URL whose scheme is http or https (in any case)
WellFormedHttp(u) == u.host # "" /\ u.scheme \in {"http", "HTTP", "https", "HTTPS"}

\* C1: in the deployment with rendering, for a valid http/https URL the
\* Rendering Fetcher is the first tier attempted; the Lightweight Fetcher is
\* started only once the rendering attempt has returned no result, never when
\* it returned a success result; and the result returned is that of the
\* first tier that succeeded.
C1_RenderingFirstThenLightweight ==
  (deployment = "rendering" /\ WellFormedHttp(url)) =>
    /\ pc # "start" => (Len(tiers) >= 1 /\ tiers[1] = "puppeteer")
    /\ (gets > 0 \/ cResult # Pending \/ Len(tiers) > 1 \/ pc \in {"c_get", "c_parse", "c_done"})
         => (pResult = Null /\ tiers = <<"puppeteer", "cheerio">>)
    /\ pResult.kind = "success" => (gets = 0 /\ cResult = Pending /\ tiers = <<"puppeteer">>)
    /\ pc = "done" =>
         /\ pResult.kind = "success" => result = pResult
         /\ (pResult = Null /\ cResult.kind = "success") => result = cResult
         /\ result.kind = "success" => (result = pResult \/ result = cResult)

\* C1 witness: the rendering attempt returned no result, the lightweight
\* fetch then succeeded and its result was returned
C1_Witness ==
  /\ deployment = "rendering"
  /\ pc = "done"
  /\ launches = 1
  /\ pResult = Null
  /\ gets = 1
  /\ cResult.kind = "success"
  /\ result = cResult

\* the rendering attempt has returned to scrapeWebsite
RenderingReturned == pResult # Pending

\* C2: when scrapeWithPuppeteer has returned (success, text too short, or an
\* exception at any stage after the launch), close() has been invoked on the
\* browser it launched, and the browser is not left open unless a close()
\* itself rejected.
C2_BrowserClosedOnEveryExit ==
  (RenderingReturned /\ launches > 0) =>
    /\ closeCalls >= 1
    /\ ~closeFailed => browser = "closed"

\* C2 witness: a stage after the launch threw, the catch block closed the
\* browser, and the fetcher returned
C2_Witness ==
  /\ pc = "p_done"
  /\ launches = 1
  /\ Len(errorLog) = 1
  /\ errorLog[1].message = "Navigation timeout of 30000 ms exceeded"
  /\ closeCalls = 1
  /\ browser = "closed"
  /\ pResult = Null


\* the upstream signalled a rate limit: an error whose message contains
\* '429' or 'RESOURCE_EXHAUSTED'
SignalsRateLimit(o) ==
  /\ o.kind = "error"
  /\ (Includes(o.message, "429") \/ Includes(o.message, "RESOURCE_EXHAUSTED"))

\* the first n upstream answers were all rate-limit errors
RateLimitedFirst(n) == \A i \in 1..n : SignalsRateLimit(outcomes[i])

\* C3: when the upstream answers k rate-limit errors and then a response,
\* with k below the retry budget, the client makes exactly k+1 calls, sleeps
\* min(1000*2^i, 10000) ms after the i-th failure (1000 then 2000 for k = 2)
\* and returns {success: true, text} with the response's text; and it never
\* gives up after fewer rate-limit errors than the budget.
C3_RetriesThenSucceeds ==
  /\ \A k \in 0..2 :
       ( /\ gpc = "done"
         /\ Len(outcomes) = k + 1
         /\ RateLimitedFirst(k)
         /\ outcomes[k + 1].kind = "response"
         /\ ~outcomes[k + 1].blocked )
       => /\ calls = k + 1
          /\ delays = SubSeq(<<1000, 2000>>, 1, k)
          /\ gresult = [success |-> TRUE, text |-> outcomes[k + 1].text]
  /\ (Len(outcomes) < 3 /\ RateLimitedFirst(Len(outcomes)) /\ gpc # "start")
       => gpc \in {"call", "sleep"}

\* C3 witness: two rate-limit errors, then a response; three calls, delays
\* of 1000 and 2000 ms, and the successful result
C3_Witness ==
  /\ gpc = "done"
  /\ Len(outcomes) = 3
  /\ RateLimitedFirst(2)
  /\ calls = 3
  /\ delays = <<1000, 2000>>
  /\ gresult = [success |-> TRUE, text |-> "Summary"]

\* the last upstream answer is an error that is not a rate-limit error
LastIsOtherError ==
  /\ outcomes # <<>>
  /\ outcomes[Len(outcomes)].kind = "error"
  /\ ~SignalsRateLimit(outcomes[Len(outcomes)])

\* C4: an error that is not a rate-limit error ends the operation at once, at
\* every attempt index: no call and no backoff sleep follows it, and the
\* operation returns a structured failure; when it is the first answer, there
\* was exactly one call and no sleep at all.
C4_OtherErrorNotRetried ==
  LastIsOtherError =>
    /\ gpc = "done"
    /\ calls = Len(outcomes)
    /\ Len(delays) = Len(outcomes) - 1
    /\ "success" \in DOMAIN gresult /\ gresult.success = FALSE
    /\ "error" \in DOMAIN gresult
    /\ Len(outcomes) = 1 => (calls = 1 /\ delays = <<>>)

\* C4 witness: a rate-limit error was retried, then a server error stopped
\* the loop
C4_Witness ==
  /\ gpc = "done"
  /\ Len(outcomes) = 2
  /\ SignalsRateLimit(outcomes[1])
  /\ outcomes[2] = Error(Msg500)
  /\ calls = 2
  /\ delays = <<1000>>
  /\ gresult.success = FALSE

\* every upstream answer so far was a rate-limit error
AlwaysRateLimited == outcomes # <<>> /\ RateLimitedFirst(Len(outcomes))

\* C5: for an upstream that signals a rate limit on every call, the client
\* makes the first call plus maxRetries retries, the retry after attempt
\* number a being preceded by a delay of min(1000 * 2^a, 10000) ms, and only
\* then returns a structured failure; it never makes more than maxRetries
\* retries.
C5_RetriesMaxRetriesTimes ==
  /\ calls <= 1 + maxRetries
  /\ (gpc = "done" /\ AlwaysRateLimited) =>
       /\ calls = 1 + maxRetries
       /\ delays = <<1000, 2000, 4000>>
       /\ gresult.success = FALSE

\* C6: summarizeText and extractKeyPoints return, for every upstream
\* behaviour, either {success: true, text} or a structured failure with
\* success = false and a non-empty error that is the underlying message;
\* success = true never comes with an error field.
C6_StructuredResultWithMessage ==
  gpc = "done" =>
    /\ "success" \in DOMAIN gresult
    /\ gresult.success => (DOMAIN gresult = {"success", "text"})
    /\ ~gresult.success =>
         /\ "error" \in DOMAIN gresult
         /\ gresult.error # <<>>
         /\ LET last == outcomes[Len(outcomes)]
            IN  last.kind = "error" /\ last.message # <<>> => gresult.error = last.message


\* C7: for an input that does not parse as a URL or whose scheme is not http
\* or https, no fetch of any tier is ever started (no browser launch, no HTTP
\* GET) and scrapeWebsite returns the invalid-URL error at its first step;
\* for a well-formed http/https URL the validator answers true and a tier is
\* started.  The validator answers in every case.
C7_InvalidUrlNeverFetched ==
  /\ ~WellFormedHttp(url) =>
       /\ launches = 0 /\ gets = 0 /\ tiers = <<>> /\ browser = "none"
       /\ pc \in {"start", "done"}
       /\ pc = "done" => result = [kind |-> "error",
                                   error |-> "Invalid URL format. Please include http:// or https://"]
  /\ (WellFormedHttp(url) /\ pc # "start") => Len(tiers) >= 1
  /\ isValidUrl(url) \in BOOLEAN

\* C7 witness: a parsable URL of another scheme was rejected without a fetch
C7_Witness ==
  /\ url = [scheme |-> "ftp", host |-> "example.com"]
  /\ pc = "done"
  /\ result.kind = "error"
  /\ launches = 0
  /\ gets = 0

\* the lines a fetcher wrote with console.error
LoggedBy(src) == {i \in DOMAIN errorLog : errorLog[i].source = src}

\* C8: no failure of a fetch stage escapes as an exception: each fetcher
\* returns a success result or null, null whenever one of its stages failed
\* (HTTP GET, parsing, launch, navigation, evaluation, close), and
\* scrapeWebsite returns a success result or {error}.
C8_NoExceptionEscapes ==
  /\ pResult.kind \in {"pending", "null", "success"}
  /\ cResult.kind \in {"pending", "null", "success"}
  /\ result.kind \in {"pending", "success", "error"}
  /\ pc = "done" => result.kind \in {"success", "error"}
  /\ (pResult # Pending /\ (LoggedBy("scrapeWithPuppeteer") # {} \/ closeFailed))
       => pResult = Null
  /\ (cResult # Pending /\ LoggedBy("scrapeWithCheerio") # {}) => cResult = Null
  /\ thrown # "" => pc = "p_catch"

\* C8 witness: a stage of the rendering fetcher threw, the close() of its
\* catch block failed too, the HTTP GET then failed, and scrapeWebsite still
\* returned an {error} value
C8_Witness ==
  /\ pc = "done"
  /\ closeFailed
  /\ closeCalls = 1
  /\ pResult = Null
  /\ cResult = Null
  /\ LoggedBy("scrapeWithPuppeteer") # {}
  /\ LoggedBy("scrapeWithCheerio") # {}
  /\ result.kind = "error"

\* a tier has extracted and normalised a text of at most 100 characters
ShortExtraction ==
  \/ pc = "p_done" /\ doc # NoDoc /\ pResult # Pending
       /\ LoggedBy("scrapeWithPuppeteer") = {}
       /\ TextLength(Substring(Trim(CollapseWhitespace(text)), 10000)) <= 100
  \/ pc \in {"c_done", "done"} /\ doc # NoDoc /\ cResult # Pending
       /\ TextLength(text) <= 100

\* C9: every success result, of either tier and of scrapeWebsite, has a text
\* longer than 100 and of at most maxTextLength (10000) characters; a tier
\* whose normalised, truncated text has 100 characters or fewer returns no
\* result.
C9_SuccessTextWithinBounds ==
  /\ \A r \in {pResult, cResult, result} :
       r.kind = "success" =>
         (TextLength(r.text) > 100 /\ TextLength(r.text) <= 10000)
  /\ (ShortExtraction /\ pc = "p_done") => pResult = Null
  /\ (ShortExtraction /\ pc # "p_done") => cResult = Null

\* C9 witness: an extraction of exactly 100 characters after normalisation
\* (105 before) was turned down by the lightweight fetcher
C9_Witness ==
  /\ pc = "c_done"
  /\ doc # NoDoc
  /\ TextLength(LongestText(doc)) = 105
  /\ TextLength(text) = 100
  /\ cResult = Null

\* every tier of the deployment was tried and gave no result
AllTiersFailed ==
  /\ pc = "done"
  /\ WellFormedHttp(url)
  /\ cResult = Null
  /\ deployment = "rendering" => pResult = Null

\* C10: when every tier failed for a valid URL, scrapeWebsite returns the one
\* fixed error message of its deployment, whatever the causes of the failures
\* (blocked status, timeout, too-short content, exception): the result has
\* no other field and is none of the logged exception messages.
C10_UniformFailureMessage ==
  AllTiersFailed =>
    /\ DOMAIN result = {"kind", "error"}
    /\ result.kind = "error"
    /\ result.error = IF deployment = "rendering"
                      THEN AllFailedMessageRendering
                      ELSE AllFailedMessageLightweight
    /\ \A i \in DOMAIN errorLog : errorLog[i].message # result.error

\* C10 witness: the rendering attempt timed out, the lightweight one was
\* answered 403, and the fixed message was returned
C10_Witness ==
  /\ AllTiersFailed
  /\ deployment = "rendering"
  /\ Len(errorLog) = 1
  /\ errorLog[1].message = "Navigation timeout of 30000 ms exceeded"
  /\ status = 403
  /\ result = ErrorResult(AllFailedMessageRendering)


\* C11: the lightweight fetcher's content selection returns the text of a
\* candidate of maximal length among the selectors present: a strictly longer
\* candidate wins whatever its place in the priority order, and of several
\* candidates of the maximal length the earliest in priority order is kept
C11_LongestCandidateSelected ==
  (farg.fn = "LongestText" /\ fres.done) =>
    LET d == farg.doc
        order == <<"article", "main", "[role=main]", ".content", ".post-content",
                   ".article-content", ".entry-content", "#main-content", "body">>
        cand == {i \in DOMAIN order : d[order[i]].present}
        len(i) == TextLength(d[order[i]].text)
    IN IF \A i \in cand : len(i) = 0
       THEN fres.value = <<>>
       ELSE \E i \in cand :
              /\ fres.value = d[order[i]].text
              /\ \A j \in cand : len(j) <= len(i)
              /\ \A j \in cand : j < i => len(j) < len(i)

\* article and main both hold 200 characters and the body fewer: the
\* article's text is the one selected
C11_Witness ==
  /\ farg.fn = "LongestText"
  /\ fres.done
  /\ farg.doc["article"] = Elem(<<W(200)>>)
  /\ farg.doc["main"] = Elem(<<W(100), S(1), W(99)>>)
  /\ farg.doc["body"] = Elem(<<S(2), W(60), S(3), W(39), S(1)>>)
  /\ fres.value = <<W(200)>>

\* C12: the rendering fetcher's content selection returns the text of the
\* first selector, in the order main, article, [role=main], .content,
\* .main-content, #content, body, whose inner text is longer than 200
\* characters, even when a later selector holds more text; when none is longer
\* than 200 characters it returns the body's inner text
C12_FirstCandidateOverThreshold ==
  (farg.fn = "RenderedText" /\ fres.done) =>
    LET d == farg.doc
        order == <<"main", "article", "[role=main]", ".content", ".main-content",
                   "#content", "body">>
        over == {i \in DOMAIN order :
                   d[order[i]].present /\ TextLength(d[order[i]].text) > 200}
    IN IF over = {}
       THEN fres.value = d["body"].text
       ELSE \E i \in over :
              /\ \A j \in over : i <= j
              /\ fres.value = d[order[i]].text

\* main holds 201 characters and article, after it, 20004: main's text is returned
C12_Witness ==
  /\ farg.fn = "RenderedText"
  /\ fres.done
  /\ farg.doc["main"] = Elem(<<W(150), S(1), X(1), S(1), W(48)>>)
  /\ farg.doc["article"] = Elem(<<W(9999), S(5), W(10000)>>)
  /\ farg.doc["body"] = Elem(<<W(200)>>)
  /\ fres.value = <<W(150), S(1), X(1), S(1), W(48)>>

\* C13: the output of cleanText holds no run of two or more consecutive
\* whitespace characters, whatever the input text
C13_CleanTextHasNoWhitespaceRun ==
  (farg.fn = "cleanText" /\ fres.done) =>
    /\ \A i \in DOMAIN fres.value :
         fres.value[i].k = "s" => fres.value[i].n = 1
    /\ \A i \in 1..(Len(fres.value) - 1) :
         ~(fres.value[i].k = "s" /\ fres.value[i + 1].k = "s")

\* C14: normalisation is idempotent: cleanText applied to its own output, and
\* the scraper's normalisation applied to its own output, return that output
C14_NormalizationIdempotent ==
  "again" \in DOMAIN fres => fres.again = fres.value

\* C15: the output of truncateText(text, maxLength) is at most maxLength
\* characters long, maxLength being 5000 when it is not given
C15_TruncatedWithinMaxLength ==
  (farg.fn = "truncateText" /\ fres.done) =>
    TextLength(fres.value) <=
      (IF "maxLength" \in DOMAIN farg THEN farg.maxLength ELSE 5000)

\* C16: the reading time reported by extractMetadata is max(1, round(wordCount
\* / 200)) minutes: at least 1, 1 for no word, 2 for 400 words, 2 for 300
\* words (a half rounds up), and never more for fewer words
C16_ReadingTime ==
  (farg.fn = "extractMetadata" /\ fres.done) =>
    LET wc == fres.value.wordCount
        r == fres.value.readingTime[1]
    IN /\ fres.value.readingTime[2] = " min read"
       /\ r >= 1
       /\ IF wc < 100 THEN r = 1
          ELSE 200 * r - 100 <= wc /\ wc < 200 * r + 100
       /\ wc = 300 => r = 2
       /\ wc = 400 => r = 2
       /\ ReadingTime(0) = 1
       /\ \A fewer \in 0..wc : ReadingTime(fewer) <= r

\* a text of 300 words is a 2 min read
C16_Witness ==
  /\ farg.fn = "extractMetadata"
  /\ fres.done
  /\ fres.value.wordCount = 300
  /\ fres.value.readingTime = <<2, " min read">>

\* C17: in every successful /api/summarize response, metadata.scrapingMethod
\* names the tier that produced the text, and metadata.wordCount is the number
\* of pieces a split on whitespace makes of the text the scraper returned,
\* which is the scrape result's own wordCount
C17_MethodAndWordCountOfScrape ==
  \A i \in DOMAIN hresponses :
    hresponses[i].status = 200 =>
      LET metadata == hresponses[i].body.metadata
      IN /\ metadata.scrapingMethod =
              (IF tiers[Len(tiers)] = "cheerio" THEN "cheerio" ELSE "puppeteer-stealth")
         /\ metadata.wordCount = SplitWhitespaceCount(hscraped.text)
         /\ metadata.wordCount = hscraped.wordCount

\* C18: the handler goes through the URL check, the API-key check, the
\* scrape, the cleaning, the summarization and the key points in this order
\* and sends exactly one response: MISSING_URL or MISSING_API_KEY before any
\* scrape is started, SCRAPING_FAILED before any summarization call,
\* SUMMARIZATION_FAILED before any key-point call, INTERNAL_ERROR when an
\* exception is thrown
C18_StagesInOrderAndOneResponse ==
  LET order == <<"url", "apiKey", "scrape", "clean", "summarize", "keyPoints">>
      reached(stage) == \E i \in DOMAIN hstages : hstages[i] = stage
      sent(st, code) ==
        /\ hresponses[1].status = st
        /\ "code" \in DOMAIN hresponses[1].body
        /\ hresponses[1].body.code = code
  IN hpc # "idle" =>
     /\ Len(hstages) <= Len(order)
     /\ hstages = SubSeq(order, 1, Len(hstages))
     /\ Len(hresponses) <= 1
     /\ hpc = "done" <=> Len(hresponses) = 1
     /\ ~reached("scrape") =>
          pc = "idle" /\ tiers = <<>> /\ launches = 0 /\ gets = 0
     /\ ~reached("summarize") => gpc = "idle" /\ calls = 0
     /\ ~reached("keyPoints") => gop = "summarizeText"
     /\ hpc = "done" =>
          IF ~hbody.parsed THEN sent(500, "INTERNAL_ERROR")
          ELSE IF ~HasUrl(hbody)
          THEN sent(400, "MISSING_URL") /\ hstages = <<"url">>
          ELSE IF ~hkey
          THEN sent(500, "MISSING_API_KEY") /\ hstages = <<"url", "apiKey">>
          ELSE IF hscraped.kind # "success"
          THEN sent(400, "SCRAPING_FAILED") /\ hstages = SubSeq(order, 1, 3)
          ELSE IF ~hsummary.success
          THEN sent(500, "SUMMARIZATION_FAILED") /\ hstages = SubSeq(order, 1, 5)
          ELSE /\ hresponses[1].status = 200
               /\ hresponses[1].body.success
               /\ hstages = order

\* the summarization was rate-limited on each of its calls: the request is
\* answered with SUMMARIZATION_FAILED and no key-point call was made
C18_Witness ==
  /\ hpc = "done"
  /\ hstages = <<"url", "apiKey", "scrape", "clean", "summarize">>
  /\ gop = "summarizeText"
  /\ calls = 3
  /\ Len(hresponses) = 1
  /\ hresponses[1].status = 500
  /\ hresponses[1].body.code = "SUMMARIZATION_FAILED"

\* C19: in both deployments the lightweight fetcher takes every HTTP status
\* below 500 for a response: a 403 or a 429 gives no result and the body is
\* not parsed, a response with any other status below 500 (a 404 included)
\* has its body parsed
C19_StatusBelow500NotFatal ==
  ( /\ pc \in {"c_done", "done"}
    /\ tiers # <<>>
    /\ tiers[Len(tiers)] = "cheerio"
    /\ status # 0
    /\ status < 500 ) =>
    IF status = 403 \/ status = 429
    THEN cResult = Null /\ doc = NoDoc
    ELSE \/ doc # NoDoc
         \/ /\ errorLog # <<>>
            /\ errorLog[Len(errorLog)].message = "cheerio.load() expects a string"

\* C20: the rendering fetcher goes through launch, configuration, navigation,
\* the 3 s settle delay, the challenge check, the title read, the noise
\* removal, the text extraction and the close in this order; the text is never
\* extracted before the settle delay was slept; the additional 8 s wait is
\* slept before the extraction if and only if the check detected the challenge
\* marker, and at most once
C20_RenderingStagesInOrder ==
  [][ LET order == <<"p_launch", "p_newPage", "p_setup", "p_goto", "p_settle",
                     "p_check", "p_title", "p_remove", "p_extract", "p_close">>
          place(stage) == CHOOSE i \in DOMAIN order : order[i] = stage
          waited(q) == \E i \in DOMAIN q : q[i] = 8000
      IN /\ (pc \in Range(order) \cup {"p_wait"} /\ pc' # pc /\ pc' # "p_catch") =>
              CASE pc = "p_check" ->
                     \/ challenge' = "detected" /\ pc' = "p_wait"
                     \/ challenge' = "absent" /\ pc' = "p_title"
                [] pc = "p_wait" ->
                     challenge = "detected" /\ pc' = "p_title"
                [] pc = "p_close" -> pc' = "p_done"
                [] OTHER -> pc' = order[place(pc) + 1]
         /\ sleeps' # sleeps =>
              \/ pc = "p_settle" /\ sleeps = <<>> /\ sleeps' = <<3000>>
              \/ pc = "p_wait" /\ sleeps = <<3000>> /\ sleeps' = <<3000, 8000>>
              \/ pc \in {"p_done", "p_catch", "done"} /\ sleeps' = <<>>
         /\ (pc = "p_extract" /\ pc' = "p_close") =>
              /\ sleeps # <<>>
              /\ sleeps[1] = 3000
              /\ waited(sleeps) <=> challenge \in {"cleared", "persisting"}
              /\ ~waited(sleeps) <=> challenge = "absent"
         /\ text' # text => pc \in {"p_extract", "c_parse", "p_done", "p_catch", "done"}
    ]_vars

\* the challenge was detected: the text is extracted after the delays of
\* 3000 and 8000 ms
C20_Witness ==
  /\ pc = "p_close"
  /\ sleeps = <<3000, 8000>>
  /\ challenge = "cleared"
  /\ doc # NoDoc
  /\ text # <<>>

\* C21: a challenge that is still shown after the additional wait is a fetch
\* failure: the rendering fetcher returns no result, and the text of the
\* challenge page is never returned as a success
C21_PersistingChallengeIsFailure ==
  challenge = "persisting" =>
    /\ pResult \in {Pending, Null}
    /\ result.kind # "success"

\* the state of the fallback orchestrator that a position of scrapeWebsite is in
OrchestratorState ==
  CASE pc = "start" -> "START"
    [] pc \in {"c_get", "c_parse", "c_done"} -> "TRY_LIGHTWEIGHT"
    [] pc = "done" -> IF result.kind = "success" THEN "SUCCESS" ELSE "FAILED"
    [] OTHER -> "TRY_RENDERED"

\* the order of the orchestrator's states
StateRank(st) ==
  CASE st = "START" -> 0
    [] st = "TRY_RENDERED" -> 1
    [] st = "TRY_LIGHTWEIGHT" -> 2
    [] OTHER -> 3

\* each tier is attempted at most once, in the order rendering, lightweight
TiersAtMostOnce ==
  /\ launches <= 1
  /\ gets <= 1
  /\ tiers \in {<<>>, <<"puppeteer">>, <<"cheerio">>, <<"puppeteer", "cheerio">>}

\* a stage that timed out has failed: its fetcher returns no result
RenderingTimedOut ==
  LogEntry("scrapeWithPuppeteer", "Navigation timeout of 30000 ms exceeded") \in Range(errorLog)
LightweightTimedOut ==
  /\ errorLog # <<>>
  /\ errorLog[Len(errorLog)] =
       LogEntry("scrapeWithCheerio", CheerioLogged(deployment, 0, "timeout of 30000ms exceeded"))
TimeoutIsStageFailure ==
  /\ (pc = "p_done" /\ RenderingTimedOut) => pResult = Null
  /\ (pc = "c_done" /\ LightweightTimedOut) => cResult = Null

\* a step of the orchestrator: never back to an earlier state, the rendering
\* tier left only for SUCCESS or for the lightweight tier, and a failed tier
\* followed by the next one (FAILED after the last)
OrchestratorStep ==
  LET from == OrchestratorState
      to == OrchestratorState'
  IN /\ StateRank(to) >= StateRank(from)
     /\ (from = "TRY_RENDERED" /\ to # from) => to \in {"SUCCESS", "TRY_LIGHTWEIGHT"}
     /\ (from = "TRY_RENDERED" /\ to = "SUCCESS") => pResult.kind = "success"
     /\ (from = "TRY_LIGHTWEIGHT" /\ to # from) => to \in {"SUCCESS", "FAILED"}
     /\ (pc = "p_done" /\ pResult = Null) => to = "TRY_LIGHTWEIGHT"
     /\ (pc = "c_done" /\ cResult = Null) => to = "FAILED"
     /\ (from \in {"SUCCESS", "FAILED"}) => to = from

\* the positions of one scrapeWebsite invocation in program order
Positions ==
  <<"start", "p_launch", "p_newPage", "p_setup", "p_goto", "p_settle", "p_check",
    "p_wait", "p_title", "p_remove", "p_extract", "p_close", "p_catch", "p_done",
    "c_get", "c_parse", "c_done", "done">>
Position(p) == CHOOSE i \in 1..Len(Positions) : Positions[i] = p

\* C22: every scrapeWebsite invocation follows TRY_RENDERED -> TRY_LIGHTWEIGHT
\* -> FAILED with exits to SUCCESS, never goes back to an earlier state,
\* attempts each tier at most once (one browser launch, one lightweight GET)
\* and treats a timeout in a stage as that stage's failure; it reaches SUCCESS
\* or FAILED once every awaited operation has settled: every step (an awaited
\* operation that completes, fails or times out) moves strictly forward in
\* the program order, which is finite, and in every state short of SUCCESS
\* and FAILED such a step is possible
C22_OrchestratorStateMachine ==
  /\ [](TiersAtMostOnce /\ TimeoutIsStageFailure)
  /\ [][OrchestratorStep]_vars
  /\ [][Position(pc') > Position(pc)]_vars
  /\ [](OrchestratorState \notin {"SUCCESS", "FAILED"} => ENABLED Next)
  /\ [](pc \in {Positions[i] : i \in 1..Len(Positions)})

\* the rendering tier timed out, the lightweight tier was tried once and the
\* invocation has ended
C22_Witness ==
  /\ pc = "done"
  /\ RenderingTimedOut
  /\ tiers = <<"puppeteer", "cheerio">>
  /\ launches = 1
  /\ gets = 1

\* C23: the retry bound of the summarization client is the configured max
\* retry count: one summarizeText or extractKeyPoints call makes at most
\* SCRAPER_CONFIG.maxRetries (MAX_RETRIES, default 3) upstream invocations,
\* and that many when every attempt is rate-limited
C23_RetryBoundIsConfigured ==
  gpc = "done" =>
    /\ calls <= ConfiguredMaxRetries(envMaxRetries)
    /\ (AlwaysRateLimited /\ calls > 0) => calls = ConfiguredMaxRetries(envMaxRetries)

\* the number of upstream answers so far that were rate-limit errors
RateLimitedFailures ==
  Cardinality({i \in DOMAIN outcomes : SignalsRateLimit(outcomes[i])})

\* C24: when every attempt is rate-limited, retryWithBackoff invokes the
\* upstream exactly maxRetries times in total (3) and sleeps after every
\* failed attempt, the last one included, so that the failure is returned
\* only after delays of 1000, 2000 and 4000 ms; the number of sleeps equals
\* the number of rate-limited failures (one less while a sleep is about to
\* start), and the error returned is that of the last attempt
C24_SleepAfterEveryRateLimit ==
  /\ calls <= maxRetries
  /\ Len(delays) = RateLimitedFailures - (IF gpc = "sleep" THEN 1 ELSE 0)
  /\ (gpc = "done" /\ AlwaysRateLimited) =>
       /\ calls = maxRetries
       /\ delays = <<1000, 2000, 4000>>
       /\ lastError = outcomes[Len(outcomes)]
       /\ gresult = Failure(gop, outcomes[Len(outcomes)])

\* three rate-limit errors, the last one different from the first: three
\* calls, three sleeps, and the failure carries the last error
C24_Witness ==
  /\ gpc = "done"
  /\ outcomes = <<Error(Msg429), Error(Msg429), Error(MsgExhausted)>>
  /\ calls = 3
  /\ delays = <<1000, 2000, 4000>>
  /\ gresult.success = FALSE
  /\ gresult.error = MsgExhausted

\* summarizeText has returned to the handler, and returned a success
SummarySucceeded == "success" \in DOMAIN hsummary /\ hsummary.success

\* C25: a failure of the key-point extraction never fails a request: when
\* scraping and summarization succeeded, the handler answers 200 with
\* success: true and the summary, keyPoints being the extracted text on
\* success and the empty string when extractKeyPoints returned a structured
\* failure; extractKeyPoints is invoked only after summarizeText succeeded
C25_KeyPointsFailureNotFatal ==
  hpc # "idle" =>
    /\ gop = "extractKeyPoints" => (hscraped.kind = "success" /\ SummarySucceeded)
    /\ (hpc = "done" /\ hscraped.kind = "success" /\ SummarySucceeded) =>
         /\ gop = "extractKeyPoints" /\ gpc = "done"
         /\ Len(hresponses) = 1
         /\ hresponses[1].status = 200
         /\ hresponses[1].body.success
         /\ hresponses[1].body.summary = hsummary.text
         /\ hresponses[1].body.keyPoints = (IF gresult.success THEN gresult.text ELSE "")

\* the extraction was rate-limited on each of its calls: the request is
\* answered 200 with the summary and empty key points
C25_Witness ==
  /\ hpc = "done"
  /\ SummarySucceeded
  /\ gop = "extractKeyPoints"
  /\ calls = 3
  /\ gresult.success = FALSE
  /\ hresponses[1].status = 200
  /\ hresponses[1].body.summary = "Summary"
  /\ hresponses[1].body.keyPoints = ""

\* the getSummary invocations whose request has not settled
InFlight == {i \in DOMAIN requests : requests[i] # "settled"}

\* C26: at most one /api/summarize request started by getSummary is in
\* flight at any time: while one is, the UI is in the loading state (button
\* disabled, loader shown) and no click or Enter key starts a second one;
\* the loading state is cleared only when no request is in flight, and it is
\* cleared once the request has settled, with success or with failure
C26_OneRequestInFlight ==
  /\ Cardinality(InFlight) <= 1
  /\ isLoading <=> InFlight # {}

=============================================================================
